---------------------------- MODULE Spec2Model ----------------------------
(***************************************************************************)
(* A model of europa-core's conversion engine: Europa.convert and          *)
(* Europa.convertElement (the same traversal is Transformer.transform and  *)
(* Transformer.transformElement), the tag -> plugin registry the engine    *)
(* reads, and the predefined plugins of the repository (StrongPlugin,      *)
(* PreformattedPlugin, FramePlugin).                                       *)
(*                                                                         *)
(* The engine is synchronous and recursive.  The recursion is modelled by  *)
(* an explicit call stack: one frame per active convertElement call, the   *)
(* frame's pc naming the statement the call is about to execute.           *)
(*                                                                         *)
(* Strings are sequences of characters, each character a TLA+ string (the  *)
(* backtick is written Backtick).  JavaScript values a hook may return are *)
(* the strings "true", "false" and "undefined".                            *)
(***************************************************************************)
EXTENDS Integers, Sequences, FiniteSets, TLC

VARIABLES
  plugins,         \* pluginManager.plugins: tag name -> plugin (NoPlugin: no own property)
  pluginKeys,      \* the own keys of pluginManager.plugins, in insertion order
  registered,      \* history: the plugins handed to register, in call order
  services,        \* serviceManager's services: name -> service (NoService: none)
  useLog,          \* history: the use calls, in call order, and whether they threw
  europaWindow,    \* Europa#_window
  windowsObtained, \* history: number of WindowService.getWindow() calls
  windowsClosed,   \* history: the windows handed to WindowService.closeWindow, in call order
  windowLog,       \* history: the window accesses and destroy calls of the caller
  html,            \* the kind of argument of the convert call ("none": no call yet)
  dom,             \* the DOM reachable from the root element of the call
  status,          \* where the convert call stands
  conversion,      \* the Conversion of the call (NoConversion: none was created)
  stack,           \* the active convertElement calls, innermost last
  contexts,        \* the context objects convertElement created, in creation order
  log,             \* history: hook calls, convertElement calls and output calls
  failure,         \* the call that threw, when status = "error"
  result           \* the value convert returned

vars == <<plugins, pluginKeys, registered, services, useLog, europaWindow, windowsClosed, windowLog, windowsObtained, html,
          dom, status, conversion, stack, contexts, log, failure, result>>

registryVars == <<plugins, pluginKeys, registered>>
serviceVars == <<services, useLog>>
windowVars == <<windowsClosed, windowLog>>
convertVars == <<europaWindow, windowsObtained, html, dom, status, conversion,
                 stack, contexts, log, failure, result>>

-----------------------------------------------------------------------------
(* Bounds of the model *)

\* Largest number of nodes of an input DOM (the root included).
MaxNodes == 3

\* Largest number of register / registerPreset calls in SpecRegistry.
MaxRegister == 3

\* Largest number of use calls in SpecServices.
MaxUse == 3

\* Largest number of window accesses and destroy calls of the caller in
\* SpecWindow.
MaxWindowCalls == 3

-----------------------------------------------------------------------------
(* Values *)

Null == 0
NoPlugin == "none"
NoConversion == [none |-> TRUE]
NoResult == <<"no result">>
NoFailure == [hook |-> "none", plugin |-> NoPlugin, node |-> Null]
MainWindow == 100

Last(s) == s[Len(s)]
Front(s) == SubSeq(s, 1, Len(s) - 1)

-----------------------------------------------------------------------------
(* Strings *)

WhiteSpace == {" ", "\t", "\n"}

\* The character U+0060.
Backtick == "backtick"

RECURSIVE DropLeading(_)
DropLeading(s) ==
  IF s # <<>> /\ Head(s) \in WhiteSpace THEN DropLeading(Tail(s)) ELSE s

RECURSIVE DropTrailing(_)
DropTrailing(s) ==
  IF s # <<>> /\ Last(s) \in WhiteSpace THEN DropTrailing(Front(s)) ELSE s

\* String.prototype.trim
Trim(s) == DropTrailing(DropLeading(s))

\* value.replace(/\u0060/g, '\\\u0060')
RECURSIVE EscapeBackticks(_)
EscapeBackticks(s) ==
  IF s = <<>> THEN <<>>
  ELSE (IF Head(s) = Backtick THEN <<"\\", Backtick>> ELSE <<Head(s)>>)
         \o EscapeBackticks(Tail(s))

\* Every run of white space replaced by one space.
RECURSIVE Collapse(_)
Collapse(s) ==
  IF s = <<>> THEN <<>>
  ELSE IF Head(s) \in WhiteSpace
       THEN <<" ">> \o Collapse(DropLeading(s))
       ELSE <<Head(s)>> \o Collapse(Tail(s))

\* The indentation prefix put after every line break of s.
RECURSIVE Indent(_, _)
Indent(s, left) ==
  IF s = <<>> THEN <<>>
  ELSE (IF Head(s) = "\n" THEN <<"\n">> \o left ELSE <<Head(s)>>)
         \o Indent(Tail(s), left)

RECURSIVE Concat(_)
Concat(ss) == IF ss = <<>> THEN <<>> ELSE Head(ss) \o Concat(Tail(ss))

-----------------------------------------------------------------------------
(* The DOM *)

Element(tag, display, visibility, cw) ==
  [nodeType |-> "ELEMENT_NODE", tagName |-> tag, display |-> display,
   visibility |-> visibility, nodeValue |-> <<>>, contentWindow |-> cw]

Text(value) ==
  [nodeType |-> "TEXT_NODE", tagName |-> "", display |-> "", visibility |-> "",
   nodeValue |-> value, contentWindow |-> FALSE]

\* The elements an input DOM is built from.
ElementMenu ==
  { Element("div", "block", "visible", FALSE),
    Element("div", "none", "visible", FALSE),
    Element("b", "inline", "visible", FALSE),
    Element("pre", "block", "visible", FALSE),
    Element("iframe", "block", "visible", FALSE),
    Element("iframe", "block", "visible", TRUE),
    Element("x", "block", "visible", FALSE),
    Element("x", "block", "hidden", FALSE) }

\* The text nodes an input DOM is built from.
TextMenu ==
  { Text(<<"a", " ">>), Text(<<" ", " ", Backtick>>) }

\* A node that is neither an element nor a text node.
Comment ==
  [nodeType |-> "COMMENT_NODE", tagName |-> "", display |-> "", visibility |-> "",
   nodeValue |-> <<"c">>, contentWindow |-> FALSE]

NodeMenu == ElementMenu \cup TextMenu \cup {Comment}

IsElement(d) == d.nodeType = "ELEMENT_NODE"
IsText(d) == d.nodeType = "TEXT_NODE"

\* The nodes of tree t on the path from n up to the root, n included.
RECURSIVE AncestorsOrSelf(_, _)
AncestorsOrSelf(t, n) ==
  IF n = Null THEN {} ELSE {n} \cup AncestorsOrSelf(t, t.parent[n])

Ancestors(t, n) == AncestorsOrSelf(t, n) \ {n}

\* The tree convert builds for a string without markup: an empty root div.
EmptyTree ==
  [size |-> 1, parent |-> <<Null>>, link |-> <<"root">>,
   node |-> <<Element("div", "block", "visible", FALSE)>>]

\* The tree of <p>Hello <b>World</b></p>, parsed into the root div.
BoldScenario ==
  [size |-> 5, parent |-> <<Null, 1, 2, 2, 4>>,
   link |-> <<"root", "child", "child", "child", "child">>,
   node |-> << Element("div", "block", "visible", FALSE),
               Element("p", "block", "visible", FALSE),
               Text(<<"H", "e", "l", "l", "o", " ">>),
               Element("b", "inline", "visible", FALSE),
               Text(<<"W", "o", "r", "l", "d">>) >>]

\* The tree of <pre>  line one\n  line two</pre>, parsed into the root div.
PreformattedScenario ==
  [size |-> 3, parent |-> <<Null, 1, 2>>,
   link |-> <<"root", "child", "child">>,
   node |-> << Element("div", "block", "visible", FALSE),
               Element("pre", "block", "visible", FALSE),
               Text(<<" ", " ", "l", "i", "n", "e", " ", "o", "n", "e", "\n",
                      " ", " ", "l", "i", "n", "e", " ", "t", "w", "o">>) >>]

\* The inputs of the scenarios, converted besides the trees of the menus.
Scenarios == {BoldScenario, PreformattedScenario}

\* The shape of a tree: its nodes are numbered in document order, and each
\* node but the root hangs under its parent either as a child node or as the
\* body of the document in the parent's contentWindow (a window has one
\* document, and a document one body).
RootShape == [size |-> 1, parent |-> <<Null>>, link |-> <<"root">>]

ShapeExtensions(s) ==
  { [size |-> s.size + 1, parent |-> Append(s.parent, x[1]),
     link |-> Append(s.link, x[2])] :
      x \in { y \in AncestorsOrSelf(s, s.size) \X {"child", "body"} :
                y[2] = "body" =>
                  \A m \in 1..s.size : ~(s.parent[m] = y[1] /\ s.link[m] = "body") } }

RECURSIVE ShapesOfSize(_)
ShapesOfSize(k) ==
  IF k = 1 THEN {RootShape}
  ELSE UNION { ShapeExtensions(s) : s \in ShapesOfSize(k - 1) }

Shapes == UNION { ShapesOfSize(k) : k \in 1..MaxNodes }

\* Whether the nodes node fit shape s: the root is an element, only an element
\* has nodes under it, and only a frame with a contentWindow has a body, which
\* is an element.
Fits(s, node) ==
  /\ IsElement(node[1])
  /\ \A n \in 2..s.size :
       /\ IsElement(node[s.parent[n]])
       /\ s.link[n] = "body" =>
            node[s.parent[n]].contentWindow /\ IsElement(node[n])

Tree(s, node) ==
  [size |-> s.size, parent |-> s.parent, link |-> s.link, node |-> node]

\* element.childNodes, in document order
RECURSIVE ChildNodesFrom(_, _, _)
ChildNodesFrom(t, n, m) ==
  IF m > t.size THEN <<>>
  ELSE (IF t.parent[m] = n /\ t.link[m] = "child" THEN <<m>> ELSE <<>>)
         \o ChildNodesFrom(t, n, m + 1)

ChildNodes(t, n) == ChildNodesFrom(t, n, 1)

\* element.contentWindow: the window of frame element n (Null: none)
ContentWindow(t, n) == IF t.node[n].contentWindow THEN MainWindow + n ELSE Null

\* window.document.body of the contentWindow of frame element n (Null: none)
Body(t, n) ==
  LET bs == { m \in 1..t.size : t.parent[m] = n /\ t.link[m] = "body" }
  IN IF bs = {} THEN Null ELSE CHOOSE m \in bs : TRUE

-----------------------------------------------------------------------------
(* Conversion: the output state of one convert call *)

\* new Conversion(europa, options)
NewConversion(window) ==
  [buffer |-> <<>>, element |-> Null, window |-> window,
   atLeft |-> TRUE, atParagraph |-> TRUE, atNoWhiteSpace |-> FALSE,
   left |-> <<>>, inPreformattedBlock |-> FALSE, inCodeBlock |-> FALSE]

\* conversion.tagName: the lower-cased tag name of conversion.element
TagName(t, c) == IF c.element = Null THEN "" ELSE t.node[c.element].tagName

\* conversion.append(string)
ConversionAppend(c, string) == [c EXCEPT !.buffer = @ \o string]

\* conversion.output(string, clean): a collapsible write when clean, a raw
\* write otherwise.
Output(c, string, clean) ==
  LET collapsed == IF clean THEN Collapse(string) ELSE string
      text == IF clean /\ (c.atLeft \/ c.atNoWhiteSpace)
              THEN DropLeading(collapsed) ELSE collapsed
  IN IF text = <<>> THEN c
     ELSE [c EXCEPT !.buffer = @ \o Indent(text, c.left),
                    !.atLeft = FALSE, !.atNoWhiteSpace = FALSE,
                    !.atParagraph = FALSE]

\* conversion.appendParagraph()
AppendParagraph(c) ==
  IF c.atParagraph THEN c
  ELSE [c EXCEPT !.buffer = @ \o (IF c.atLeft THEN <<"\n">> ELSE <<"\n", "\n">>)
                               \o c.left,
                 !.atLeft = TRUE, !.atParagraph = TRUE]

-----------------------------------------------------------------------------
(* The plugin registry *)

\* The plugins of the model: the predefined plugins of the repository, and two
\* plugins A and B of the caller.
PluginNames ==
  {"StrongPlugin", "PreformattedPlugin", "FramePlugin", "PluginA", "PluginB"}

\* plugin.getTagNames()
GetTagNames(p) ==
  CASE p = "StrongPlugin" -> <<"b", "strong">>
    [] p = "PreformattedPlugin" -> <<"pre">>
    [] p = "FramePlugin" -> <<"frame", "iframe">>
    [] p = "PluginA" -> <<"x", "y">>
    [] p = "PluginB" -> <<"x">>

TagNames == UNION { { GetTagNames(p)[i] : i \in 1..Len(GetTagNames(p)) } : p \in PluginNames }
           \cup {"div", "p"}

\* A registry: the plugins object and the insertion order of its keys.
EmptyRegistry == [plugins |-> [tag \in TagNames |-> NoPlugin], keys |-> <<>>]

\* SetPlugin, were a tag name that has a plugin left with it.
SetPlugin_KeepFirst(r, tag, p) ==
  IF r.plugins[tag] # NoPlugin THEN r
  ELSE [plugins |-> [r.plugins EXCEPT ![tag] = p], keys |-> Append(r.keys, tag)]

\* this.plugins[tag] = plugin
SetPlugin(r, tag, p) ==
  [plugins |-> [r.plugins EXCEPT ![tag] = p],
   keys |-> IF r.plugins[tag] = NoPlugin THEN Append(r.keys, tag) ELSE r.keys]

\* pluginManager.register(plugin): every declared tag name is mapped to plugin.
RECURSIVE SetPlugins(_, _, _)
SetPlugins(r, tags, p) ==
  IF tags = <<>> THEN r ELSE SetPlugins(SetPlugin(r, Head(tags), p), Tail(tags), p)

PluginManagerRegister(r, p) == SetPlugins(r, GetTagNames(p), p)

\* pluginManager.registerPreset(preset): register, in the preset's order.
RECURSIVE PluginManagerRegisterPreset(_, _)
PluginManagerRegisterPreset(r, preset) ==
  IF preset = <<>> THEN r
  ELSE PluginManagerRegisterPreset(PluginManagerRegister(r, Head(preset)), Tail(preset))

\* The presets of the model.
Presets ==
  { <<"StrongPlugin", "PreformattedPlugin", "FramePlugin">>,
    <<"PluginA", "PluginB">>, <<"PluginB", "PluginA">> }

\* The registry the conversions of the model run with: the predefined plugins
\* and plugin A, registered one after the other.
ConversionRegistry ==
  PluginManagerRegisterPreset(EmptyRegistry,
    <<"StrongPlugin", "PreformattedPlugin", "FramePlugin", "PluginA">>)

\* pluginManager.plugins[conversion.tagName]
Lookup(tag) == plugins[tag]

-----------------------------------------------------------------------------
(* The services *)

\* The names a service may go by (service.getName()); "window" is the name
\* convert and destroy ask for.
ServiceNames == {"window", "charset", "log"}

\* The services of the model: two under every name.
ServiceMenu == { [name |-> n, id |-> i] : n \in ServiceNames, i \in 1..2 }

NoService == [name |-> "", id |-> 0]

\* new ServiceManager()
EmptyServices == [n \in ServiceNames |-> NoService]

\* ServiceManagerSetService, were a configured service replaced.
ServiceManagerSetService_Replace(ss, name, service) ==
  [services |-> [ss EXCEPT ![name] = service], threw |-> FALSE]

\* serviceManager.setService(name, service): an error when a service is
\* configured under name already, and the service is kept under name otherwise.
ServiceManagerSetService(ss, name, service) ==
  IF ss[name] # NoService
  THEN [services |-> ss, threw |-> TRUE]
  ELSE [services |-> [ss EXCEPT ![name] = service], threw |-> FALSE]

\* The services the conversions of the model run with: a window service.
ConversionServices ==
  ServiceManagerSetService(EmptyServices, "window",
                           [name |-> "window", id |-> 1]).services

-----------------------------------------------------------------------------
(* The plugins *)

\* The per-element context: a map from keys to values.
EmptyContext == [key \in {} |-> Null]
ContextSet(ctx, key, value) == (key :> value) @@ ctx

\* What a hook call does: the conversion and the context it leaves, the value
\* it returns, the output calls it makes, whether it throws, and whether it
\* calls europa.convertElement(callee, conversion) before it returns.
Outcome(c, ctx, ret) ==
  [conv |-> c, ctx |-> ctx, ret |-> ret, writes |-> <<>>, threw |-> FALSE,
   calls |-> FALSE, callee |-> Null]

Write(string, clean) == [string |-> string, clean |-> clean]

\* A hook a plugin does not override: Plugin's own, which does nothing.
PluginDefault(c, ctx, ret) == { Outcome(c, ctx, ret) }

\* StrongPlugin.convert
StrongPluginConvert(c, ctx) ==
  { [Outcome([Output(c, <<"*", "*">>, FALSE) EXCEPT !.atNoWhiteSpace = TRUE],
             ctx, "true")
       EXCEPT !.writes = <<Write(<<"*", "*">>, FALSE)>>] }

\* StrongPluginAfter, were after left to Plugin.
StrongPluginAfter_Nothing(c, ctx) == PluginDefault(c, ctx, "undefined")

\* StrongPlugin.after
StrongPluginAfter(c, ctx) ==
  { [Outcome(Output(c, <<"*", "*">>, FALSE), ctx, "undefined")
       EXCEPT !.writes = <<Write(<<"*", "*">>, FALSE)>>] }

\* PreformattedPlugin.before
PreformattedPluginBefore(c, ctx) ==
  { Outcome(c,
            ContextSet(ContextSet(ctx, "previousInPreformattedBlock",
                                  c.inPreformattedBlock),
                       "previousLeft", c.left),
            "undefined") }

\* PreformattedPlugin.transform
PreformattedPluginTransform(c, ctx) ==
  LET value == <<" ", " ", " ", " ">>
      c1 == [c EXCEPT !.left = @ \o value]
  IN { Outcome(IF c1.atParagraph THEN ConversionAppend(c1, value)
               ELSE AppendParagraph(c1),
               ctx, "undefined") }

\* PreformattedPluginAfter, were left not assigned back.
PreformattedPluginAfter_KeepsLeft(c, ctx) ==
  { Outcome(AppendParagraph(
              [c EXCEPT !.atLeft = FALSE, !.atParagraph = FALSE,
                        !.inPreformattedBlock = ctx["previousInPreformattedBlock"]]),
            ctx, "undefined") }

\* PreformattedPlugin.after
PreformattedPluginAfter(c, ctx) ==
  { Outcome(AppendParagraph(
              [c EXCEPT !.atLeft = FALSE, !.atParagraph = FALSE,
                        !.inPreformattedBlock = ctx["previousInPreformattedBlock"],
                        !.left = ctx["previousLeft"]]),
            ctx, "undefined") }

\* FramePlugin.before
FramePluginBefore(c, ctx) ==
  { Outcome(c, ContextSet(ctx, "previousWindow", c.window), "undefined") }

\* FramePluginConvert, were the hook to return true: the engine would go on to
\* the element's own child nodes.
FramePluginConvert_Descends(t, c, ctx) ==
  LET window == ContentWindow(t, c.element)
  IN IF window # Null
     THEN { [Outcome([c EXCEPT !.window = window], ctx, "true")
               EXCEPT !.calls = TRUE, !.callee = Body(t, c.element)] }
     ELSE { Outcome(c, ctx, "true") }

\* FramePlugin.convert
FramePluginConvert(t, c, ctx) ==
  LET window == ContentWindow(t, c.element)
  IN IF window # Null
     THEN { [Outcome([c EXCEPT !.window = window], ctx, "false")
               EXCEPT !.calls = TRUE, !.callee = Body(t, c.element)] }
     ELSE { Outcome(c, ctx, "false") }

\* FramePluginAfter, were the window left as convert set it.
FramePluginAfter_KeepsWindow(c, ctx) == PluginDefault(c, ctx, "undefined")

\* FramePlugin.after
FramePluginAfter(c, ctx) ==
  { Outcome([c EXCEPT !.window = ctx["previousWindow"]], ctx, "undefined") }

\* The plugins of the caller: what their hooks do is an input of the model.
CallerPlugins == {"PluginA", "PluginB"}

\* What a hook of a caller's plugin may return.
HookReturns == {"true", "false", "undefined"}

\* The mode flags a caller's before hook may leave set.
HookModes == { [pre |-> pre, code |-> code] : pre \in BOOLEAN, code \in BOOLEAN }

Thrown(c, ctx) == [Outcome(c, ctx, "undefined") EXCEPT !.threw = TRUE]

CallerPluginBefore(c, ctx) ==
  { Outcome([c EXCEPT !.inPreformattedBlock = @ \/ m.pre,
                      !.inCodeBlock = @ \/ m.code], ctx, "undefined") :
      m \in HookModes }
  \cup { Thrown(c, ctx) }

CallerPluginConvert(c, ctx) ==
  { Outcome(c, ctx, r) : r \in HookReturns } \cup { Thrown(c, ctx) }

CallerPluginAfter(c, ctx) ==
  { Outcome(c, ctx, "undefined"), Thrown(c, ctx) }

\* plugin.before(conversion, context)
PluginBefore(p, c, ctx) ==
  CASE p = "PreformattedPlugin" -> PreformattedPluginBefore(c, ctx)
    [] p = "FramePlugin" -> FramePluginBefore(c, ctx)
    [] p \in CallerPlugins -> CallerPluginBefore(c, ctx)
    [] OTHER -> PluginDefault(c, ctx, "undefined")

\* plugin.convert(conversion, context) (plugin.transform of the Transformer)
PluginConvert(p, t, c, ctx) ==
  CASE p = "StrongPlugin" -> StrongPluginConvert(c, ctx)
    [] p = "PreformattedPlugin" -> PreformattedPluginTransform(c, ctx)
    [] p = "FramePlugin" -> FramePluginConvert(t, c, ctx)
    [] p \in CallerPlugins -> CallerPluginConvert(c, ctx)
    [] OTHER -> PluginDefault(c, ctx, "true")

\* plugin.after(conversion, context)
PluginAfter(p, c, ctx) ==
  CASE p = "StrongPlugin" -> StrongPluginAfter(c, ctx)
    [] p = "PreformattedPlugin" -> PreformattedPluginAfter(c, ctx)
    [] p = "FramePlugin" -> FramePluginAfter(c, ctx)
    [] p \in CallerPlugins -> CallerPluginAfter(c, ctx)
    [] OTHER -> PluginDefault(c, ctx, "undefined")

-----------------------------------------------------------------------------
(* The history of a convert call *)

\* One entry of the log.  ev is "beforeAll", "before", "convert", "after" or
\* "afterAll" (the hook is called), "converted" (the convert hook returned
\* ret), "convertElement" (convertElement is called for node, by "convert",
\* by the "engine" for a child node, or by a "plugin"; from is the element the
\* caller is visiting), "visit" (node is a visible element: it became
\* conversion.element and plugin was looked up for it), or "output"
\* (conversion.output(string, clean) is called while node is visited, pre and
\* code being the mode flags at the call), or "returned" (the convertElement
\* call for node returns).  conv is the conversion as the call finds it (as the
\* return leaves it, for "returned"); context is the context object handed to
\* a hook of convertElement and ctx what it holds at the call.
Event(ev, node, plugin) ==
  [ev |-> ev, node |-> node, plugin |-> plugin, ret |-> "", by |-> "",
   from |-> Null, string |-> <<>>, clean |-> FALSE, pre |-> FALSE, code |-> FALSE,
   conv |-> NoConversion, context |-> Null, ctx |-> EmptyContext]

CallEvent(node, by, from, c) ==
  [Event("convertElement", node, NoPlugin)
     EXCEPT !.by = by, !.from = from, !.conv = c]

\* The call of hook ev of the innermost convertElement call f.
HookEvent(ev, f, c) ==
  [Event(ev, f.node, f.plugin)
     EXCEPT !.conv = c, !.context = f.context, !.ctx = contexts[f.context]]

ReturnEvent(node, c) == [Event("returned", node, NoPlugin) EXCEPT !.conv = c]

OutputEvent(node, c, w) ==
  [Event("output", node, NoPlugin)
     EXCEPT !.string = w.string, !.clean = w.clean,
            !.pre = c.inPreformattedBlock, !.code = c.inCodeBlock]

\* The output calls of one hook call, as log entries.
OutputEvents(node, c, writes) ==
  [i \in 1..Len(writes) |-> OutputEvent(node, c, writes[i])]

-----------------------------------------------------------------------------
(* Europa.convert *)

\* The arguments of convert: a falsy value, an HTML string (convert parses it
\* into a new div, the root of the tree), or an element (the root of the tree).
\* A tree whose root is a plain div stands for a string, any other tree for an
\* element: the traversal does not tell a parsed div from a given one.
FalsyKinds == {"empty string", "null", "undefined"}

PlainDiv == Element("div", "block", "visible", FALSE)

InputKind(tree) == IF tree.node[1] = PlainDiv THEN "string" ELSE "element"

\* IsFalsy, were only null and undefined refused (html == null).
IsFalsy_NullOnly(kind) == kind \in {"null", "undefined"}

\* !html
IsFalsy(kind) == kind \in FalsyKinds

\* The root element convert hands to convertElement.
Root(kind) == IF kind \in {"null", "undefined"} THEN Null ELSE 1

\* windowService.getWindow(): the window the service hands out at its call
\* number obtained + 1 (a window of its own for every call; the first one is
\* MainWindow).
GetWindow(obtained) == MainWindow * (obtained + 1)

\* Europa#window: the window of the instance, obtained when there is none.
WindowGet ==
  IF europaWindow = Null
  THEN [window |-> GetWindow(windowsObtained), obtained |-> windowsObtained + 1]
  ELSE [window |-> europaWindow, obtained |-> windowsObtained]

\* The frame of a convertElement(node, conversion) call.
NewFrame(node) ==
  [node |-> node, pc |-> "enter", i |-> 1, plugin |-> NoPlugin,
   context |-> Null, convertChildren |-> "false", ret |-> ""]

\* NewContext, were one object made for the first element and handed to every
\* element after it.
NewContext_Shared(cs) ==
  IF cs = <<>> THEN [contexts |-> <<EmptyContext>>, ref |-> 1]
  ELSE [contexts |-> cs, ref |-> 1]

\* context = {}: a new object, which holds nothing.
NewContext(cs) == [contexts |-> Append(cs, EmptyContext), ref |-> Len(cs) + 1]

\* The context object ref holding ctx from now on.
ContextUpdate(cs, ref, ctx) == [cs EXCEPT ![ref] = ctx]

Top == Last(stack)
ReplaceTop(f) == Append(Front(stack), f)

\* Whether some plugin of the caller is registered (and so a hook may throw).
MayThrow(p) == p \in CallerPlugins

\* forOwn(pluginManager.plugins, hook): the hook is called for every own key,
\* in insertion order; k is the key whose call throws (0: none does).
ForOwnEvents(hook, k) ==
  [i \in 1..(IF k = 0 THEN Len(pluginKeys) ELSE k) |->
     Event(hook, Null, plugins[pluginKeys[i]])]

\* convert(html) for a falsy html.
ConvertNothing(kind) ==
  /\ html' = kind
  /\ result' = <<>>
  /\ status' = "done"
  /\ UNCHANGED <<europaWindow, windowsObtained, dom, conversion>>

\* convert(html) for any other html, up to the creation of the Conversion.
ConvertTree(kind, tree) ==
  /\ html' = kind
  /\ europaWindow' = WindowGet.window
  /\ windowsObtained' = WindowGet.obtained
  /\ dom' = tree
  /\ conversion' = NewConversion(WindowGet.window)
  /\ status' = "beforeAll"
  /\ UNCHANGED result

ConvertCall(kind, tree) ==
  IF IsFalsy(kind) THEN ConvertNothing(kind) ELSE ConvertTree(kind, tree)

\* convert(html)
Convert ==
  /\ status = "idle"
  /\ \/ \E kind \in FalsyKinds : ConvertCall(kind, EmptyTree)
     \/ \E s \in Shapes : \E node \in [1..s.size -> NodeMenu] :
          /\ Fits(s, node)
          /\ ConvertCall(InputKind(Tree(s, node)), Tree(s, node))
     \/ \E tree \in Scenarios : ConvertCall(InputKind(tree), tree)
  /\ UNCHANGED <<stack, contexts, log, failure>>
  /\ UNCHANGED <<registryVars, serviceVars, windowVars>>

\* The beforeAll loop of convert, and its call of convertElement(root).
BeforeAll ==
  /\ status = "beforeAll"
  /\ \E k \in 0..Len(pluginKeys) :
       /\ k # 0 => MayThrow(plugins[pluginKeys[k]])
       /\ IF k = 0
          THEN /\ log' = log \o ForOwnEvents("beforeAll", 0)
                           \o <<CallEvent(Root(html), "convert", Null, conversion)>>
               /\ stack' = <<NewFrame(Root(html))>>
               /\ status' = "convertElement"
               /\ UNCHANGED failure
          ELSE /\ log' = log \o ForOwnEvents("beforeAll", k)
               /\ status' = "error"
               /\ failure' = [hook |-> "beforeAll",
                              plugin |-> plugins[pluginKeys[k]], node |-> Null]
               /\ UNCHANGED stack
  /\ UNCHANGED <<europaWindow, windowsObtained, html, dom, conversion, contexts,
                 result>>
  /\ UNCHANGED <<registryVars, serviceVars, windowVars>>

\* AfterAll, were the afterAll loop placed before the traversal.
AfterAll_Early ==
  /\ status = "beforeAll"
  /\ \A i \in DOMAIN log : log[i].ev # "afterAll"
  /\ log' = log \o ForOwnEvents("afterAll", 0)
  /\ UNCHANGED <<europaWindow, windowsObtained, html, dom, status, conversion,
                 stack, contexts, failure, result>>
  /\ UNCHANGED <<registryVars, serviceVars, windowVars>>

\* The afterAll loop of convert.
AfterAll ==
  /\ status = "afterAll"
  /\ \E k \in 0..Len(pluginKeys) :
       /\ k # 0 => MayThrow(plugins[pluginKeys[k]])
       /\ log' = log \o ForOwnEvents("afterAll", k)
       /\ IF k = 0
          THEN status' = "return" /\ UNCHANGED failure
          ELSE /\ status' = "error"
               /\ failure' = [hook |-> "afterAll",
                              plugin |-> plugins[pluginKeys[k]], node |-> Null]
  /\ UNCHANGED <<europaWindow, windowsObtained, html, dom, conversion, stack,
                 contexts, result>>
  /\ UNCHANGED <<registryVars, serviceVars, windowVars>>

\* return conversion.append('').buffer.trim()
ConvertReturn ==
  /\ status = "return"
  /\ result' = Trim(ConversionAppend(conversion, <<>>).buffer)
  /\ status' = "done"
  /\ UNCHANGED <<europaWindow, windowsObtained, html, dom, conversion, stack,
                 contexts, log, failure>>
  /\ UNCHANGED <<registryVars, serviceVars, windowVars>>

-----------------------------------------------------------------------------
(* Europa.convertElement *)

\* IsVisible, were only the display property read.
IsVisible_DisplayOnly(d) == d.display # "none"

\* IsVisible, were only the visibility property read.
IsVisible_VisibilityOnly(d) == d.visibility # "hidden"

\* DOMUtilities.isVisible(element) (Transformer._isVisible)
IsVisible(d) == d.display # "none" /\ d.visibility # "hidden"

\* if (convertChildren)
Descend(convertChildren) == convertChildren = "true"

\* TextNodeOutput, were every text node written by a raw write.
TextNodeOutput_Raw(c, value) ==
  IF c.inCodeBlock /\ ~c.inPreformattedBlock
  THEN [string |-> EscapeBackticks(value), clean |-> FALSE]
  ELSE [string |-> value, clean |-> FALSE]

\* TextNodeOutput, were inCodeBlock tested before inPreformattedBlock.
TextNodeOutput_CodeFirst(c, value) ==
  IF c.inCodeBlock THEN [string |-> EscapeBackticks(value), clean |-> FALSE]
  ELSE IF c.inPreformattedBlock THEN [string |-> value, clean |-> FALSE]
  ELSE [string |-> value, clean |-> TRUE]

\* The output call convertElement makes for a text node with value value.
TextNodeOutput(c, value) ==
  IF c.inPreformattedBlock THEN Write(value, FALSE)
  ELSE IF c.inCodeBlock THEN Write(EscapeBackticks(value), FALSE)
  ELSE Write(value, TRUE)

\* ReturnFromElement, were convert never to go on after the call for the root.
ReturnFromElement_Stuck ==
  /\ stack' = Front(stack)
  /\ status' = status

\* The innermost convertElement call returns; convert goes on when it was the
\* call for the root.
ReturnFromElement ==
  /\ stack' = Front(stack)
  /\ status' = IF Len(stack) = 1 THEN "afterAll" ELSE status

\* A hook threw: the error leaves every active call.
\* Throw, were the error caught and the conversion carried on.
Throw_Caught(hook, f) ==
  /\ status' = status
  /\ failure' = [hook |-> hook, plugin |-> f.plugin, node |-> f.node]

\* A hook call of convertElement throws: nothing catches it, convert(html)
\* ends without a return value.
Throw(hook, f) ==
  /\ status' = "error"
  /\ failure' = [hook |-> hook, plugin |-> f.plugin, node |-> f.node]

convertUnchanged == <<europaWindow, windowsObtained, html, dom, result>>

\* convertElement from its entry (this.window is read for any node): nothing
\* for no element and for an invisible one; a visible element becomes
\* conversion.element and gets its context and its plugin; a text node is
\* written.
ConvertElementEnter ==
  /\ status = "convertElement" /\ stack # <<>> /\ Top.pc = "enter"
  /\ LET n == Top.node
     IN IF n # Null /\ IsElement(dom.node[n]) /\ IsVisible(dom.node[n])
        THEN LET c == [conversion EXCEPT !.element = n]
                 plugin == Lookup(TagName(dom, c))
                 new == NewContext(contexts)
             IN /\ conversion' = c
                /\ contexts' = new.contexts
                /\ stack' = ReplaceTop([Top EXCEPT
                              !.context = new.ref, !.plugin = plugin,
                              !.convertChildren = "true",
                              !.pc = IF plugin # NoPlugin THEN "before"
                                     ELSE "children"])
                /\ log' = Append(log, [Event("visit", n, plugin)
                                         EXCEPT !.context = new.ref])
                /\ UNCHANGED status
        ELSE IF n # Null /\ IsText(dom.node[n])
        THEN LET w == TextNodeOutput(conversion, dom.node[n].nodeValue)
                 c == Output(conversion, w.string, w.clean)
             IN /\ conversion' = c
                /\ log' = log \o <<OutputEvent(n, conversion, w), ReturnEvent(n, c)>>
                /\ ReturnFromElement
                /\ UNCHANGED contexts
        ELSE /\ log' = Append(log, ReturnEvent(n, conversion))
             /\ ReturnFromElement
             /\ UNCHANGED <<conversion, contexts>>
  /\ europaWindow' = (IF Top.node = Null THEN europaWindow ELSE WindowGet.window)
  /\ windowsObtained' = (IF Top.node = Null THEN windowsObtained
                         ELSE WindowGet.obtained)
  /\ UNCHANGED <<failure, html, dom, result>>
  /\ UNCHANGED <<registryVars, serviceVars, windowVars>>

\* plugin.before(conversion, context)
ConvertElementBefore ==
  /\ status = "convertElement" /\ stack # <<>> /\ Top.pc = "before"
  /\ \E o \in PluginBefore(Top.plugin, conversion, contexts[Top.context]) :
       /\ log' = Append(log, HookEvent("before", Top, conversion))
       /\ IF o.threw
          THEN Throw("before", Top) /\ UNCHANGED <<conversion, stack, contexts>>
          ELSE /\ conversion' = o.conv
               /\ contexts' = ContextUpdate(contexts, Top.context, o.ctx)
               /\ stack' = ReplaceTop([Top EXCEPT !.pc = "convert"])
               /\ UNCHANGED <<status, failure>>
  /\ UNCHANGED convertUnchanged
  /\ UNCHANGED <<registryVars, serviceVars, windowVars>>

\* convertChildren = plugin.convert(conversion, context), up to the hook's
\* return or to the call of convertElement the hook makes.
ConvertElementConvert ==
  /\ status = "convertElement" /\ stack # <<>> /\ Top.pc = "convert"
  /\ \E o \in PluginConvert(Top.plugin, dom, conversion, contexts[Top.context]) :
       LET called == Append(log, HookEvent("convert", Top, conversion))
                       \o OutputEvents(Top.node, conversion, o.writes)
       IN IF o.threw
          THEN /\ log' = called
               /\ Throw("convert", Top)
               /\ UNCHANGED <<conversion, stack, contexts>>
          ELSE IF o.calls
          THEN /\ log' = Append(called, CallEvent(o.callee, "plugin", Top.node,
                                                  o.conv))
               /\ conversion' = o.conv
               /\ contexts' = ContextUpdate(contexts, Top.context, o.ctx)
               /\ stack' = Append(ReplaceTop([Top EXCEPT !.ret = o.ret,
                                                         !.pc = "converting"]),
                                  NewFrame(o.callee))
               /\ UNCHANGED <<status, failure>>
          ELSE /\ log' = Append(called, [Event("converted", Top.node, Top.plugin)
                                           EXCEPT !.ret = o.ret])
               /\ conversion' = o.conv
               /\ contexts' = ContextUpdate(contexts, Top.context, o.ctx)
               /\ stack' = ReplaceTop([Top EXCEPT !.convertChildren = o.ret,
                                                  !.pc = "children"])
               /\ UNCHANGED <<status, failure>>
  /\ UNCHANGED convertUnchanged
  /\ UNCHANGED <<registryVars, serviceVars, windowVars>>

\* The convert hook returns after the convertElement call it made.
ConvertElementConverted ==
  /\ status = "convertElement" /\ stack # <<>> /\ Top.pc = "converting"
  /\ log' = Append(log, [Event("converted", Top.node, Top.plugin)
                           EXCEPT !.ret = Top.ret])
  /\ stack' = ReplaceTop([Top EXCEPT !.convertChildren = Top.ret,
                                     !.pc = "children"])
  /\ UNCHANGED <<status, conversion, contexts, failure, convertUnchanged>>
  /\ UNCHANGED <<registryVars, serviceVars, windowVars>>

\* ConvertElementChildren, were plugin.after called only when the children
\* were converted.
ConvertElementChildren_SkipAfter ==
  /\ status = "convertElement" /\ stack # <<>> /\ Top.pc = "children"
  /\ LET childNodes == ChildNodes(dom, Top.node)
     IN IF Descend(Top.convertChildren) /\ Top.i <= Len(childNodes)
        THEN /\ stack' = Append(ReplaceTop([Top EXCEPT !.i = @ + 1]),
                                NewFrame(childNodes[Top.i]))
             /\ log' = Append(log, CallEvent(childNodes[Top.i], "engine", Top.node,
                                             conversion))
             /\ UNCHANGED status
        ELSE IF Top.plugin # NoPlugin /\ Descend(Top.convertChildren)
        THEN /\ stack' = ReplaceTop([Top EXCEPT !.pc = "after"])
             /\ UNCHANGED <<status, log>>
        ELSE /\ ReturnFromElement
             /\ log' = Append(log, ReturnEvent(Top.node, conversion))
  /\ UNCHANGED <<conversion, contexts, failure, convertUnchanged>>
  /\ UNCHANGED <<registryVars, serviceVars, windowVars>>

\* The loop over element.childNodes: the next child is visited; after the
\* last one, or when the children are not converted, the call goes on to
\* plugin.after, or returns when the element has no plugin.
ConvertElementChildren ==
  /\ status = "convertElement" /\ stack # <<>> /\ Top.pc = "children"
  /\ LET childNodes == ChildNodes(dom, Top.node)
     IN IF Descend(Top.convertChildren) /\ Top.i <= Len(childNodes)
        THEN /\ stack' = Append(ReplaceTop([Top EXCEPT !.i = @ + 1]),
                                NewFrame(childNodes[Top.i]))
             /\ log' = Append(log, CallEvent(childNodes[Top.i], "engine", Top.node,
                                             conversion))
             /\ UNCHANGED status
        ELSE IF Top.plugin # NoPlugin
        THEN /\ stack' = ReplaceTop([Top EXCEPT !.pc = "after"])
             /\ UNCHANGED <<status, log>>
        ELSE /\ ReturnFromElement
             /\ log' = Append(log, ReturnEvent(Top.node, conversion))
  /\ UNCHANGED <<conversion, contexts, failure, convertUnchanged>>
  /\ UNCHANGED <<registryVars, serviceVars, windowVars>>

\* ConvertElementAfter, were plugin.after called in a finally block: it is
\* called for the calling element too while an error leaves the calls.
ConvertElementAfter_Finally ==
  \/ /\ status = "convertElement" /\ stack # <<>> /\ Top.pc = "after"
     /\ \E o \in PluginAfter(Top.plugin, conversion, contexts[Top.context]) :
          LET called == Append(log, HookEvent("after", Top, conversion))
                          \o OutputEvents(Top.node, conversion, o.writes)
          IN IF o.threw
             THEN /\ log' = called
                  /\ Throw("after", Top)
                  /\ UNCHANGED <<conversion, stack, contexts>>
             ELSE /\ log' = Append(called, ReturnEvent(Top.node, o.conv))
                  /\ conversion' = o.conv
                  /\ contexts' = ContextUpdate(contexts, Top.context, o.ctx)
                  /\ ReturnFromElement
                  /\ UNCHANGED failure
     /\ UNCHANGED convertUnchanged
     /\ UNCHANGED <<registryVars, serviceVars, windowVars>>
  \/ /\ status = "error" /\ Len(stack) > 1
     /\ Front(stack)[Len(stack) - 1].plugin # NoPlugin
     /\ stack' = Front(stack)
     /\ log' = Append(log, Event("after", Front(stack)[Len(stack) - 1].node,
                                 Front(stack)[Len(stack) - 1].plugin))
     /\ UNCHANGED <<status, conversion, contexts, failure, convertUnchanged>>
     /\ UNCHANGED <<registryVars, serviceVars, windowVars>>

\* plugin.after(conversion, context), and the return of convertElement.
ConvertElementAfter ==
  /\ status = "convertElement" /\ stack # <<>> /\ Top.pc = "after"
  /\ \E o \in PluginAfter(Top.plugin, conversion, contexts[Top.context]) :
       LET called == Append(log, HookEvent("after", Top, conversion))
                       \o OutputEvents(Top.node, conversion, o.writes)
       IN IF o.threw
          THEN /\ log' = called
               /\ Throw("after", Top)
               /\ UNCHANGED <<conversion, stack, contexts>>
          ELSE /\ log' = Append(called, ReturnEvent(Top.node, o.conv))
               /\ conversion' = o.conv
               /\ contexts' = ContextUpdate(contexts, Top.context, o.ctx)
               /\ ReturnFromElement
               /\ UNCHANGED failure
  /\ UNCHANGED convertUnchanged
  /\ UNCHANGED <<registryVars, serviceVars, windowVars>>

-----------------------------------------------------------------------------
(* Europa.register and Europa.registerPreset *)

CurrentRegistry == [plugins |-> plugins, keys |-> pluginKeys]

\* Europa.register(plugin)
Register ==
  /\ status = "idle"
  /\ Len(registered) < MaxRegister
  /\ \E p \in PluginNames :
       LET r == PluginManagerRegister(CurrentRegistry, p)
       IN /\ plugins' = r.plugins
          /\ pluginKeys' = r.keys
          /\ registered' = Append(registered, p)
  /\ UNCHANGED <<convertVars, serviceVars, windowVars>>

\* Europa.registerPreset(preset)
RegisterPreset ==
  /\ status = "idle"
  /\ \E preset \in Presets :
       /\ Len(registered) + Len(preset) <= MaxRegister
       /\ LET r == PluginManagerRegisterPreset(CurrentRegistry, preset)
          IN /\ plugins' = r.plugins
             /\ pluginKeys' = r.keys
             /\ registered' = registered \o preset
  /\ UNCHANGED <<convertVars, serviceVars, windowVars>>

-----------------------------------------------------------------------------
(* Europa#window and Europa.destroy *)

\* europa.window (or europa.document), read by the caller between conversions
Window ==
  /\ status \in {"idle", "done", "error"}
  /\ Len(windowLog) < MaxWindowCalls
  /\ europaWindow' = WindowGet.window
  /\ windowsObtained' = WindowGet.obtained
  /\ windowLog' = Append(windowLog, "window")
  /\ UNCHANGED <<windowsClosed, html, dom, status, conversion, stack, contexts,
                 log, failure, result>>
  /\ UNCHANGED <<registryVars, serviceVars>>

\* Destroy, were this._window not reset.
Destroy_KeepsWindow ==
  /\ status \in {"idle", "done", "error"}
  /\ Len(windowLog) < MaxWindowCalls
  /\ IF europaWindow # Null
     THEN windowsClosed' = Append(windowsClosed, europaWindow)
     ELSE UNCHANGED windowsClosed
  /\ windowLog' = Append(windowLog, "destroy")
  /\ UNCHANGED <<europaWindow, windowsObtained, html, dom, status, conversion,
                 stack, contexts, log, failure, result>>
  /\ UNCHANGED <<registryVars, serviceVars>>

\* Europa.destroy()
Destroy ==
  /\ status \in {"idle", "done", "error"}
  /\ Len(windowLog) < MaxWindowCalls
  /\ IF europaWindow # Null
     THEN /\ windowsClosed' = Append(windowsClosed, europaWindow)
          /\ europaWindow' = Null
     ELSE UNCHANGED <<windowsClosed, europaWindow>>
  /\ windowLog' = Append(windowLog, "destroy")
  /\ UNCHANGED <<windowsObtained, html, dom, status, conversion, stack,
                 contexts, log, failure, result>>
  /\ UNCHANGED <<registryVars, serviceVars>>

-----------------------------------------------------------------------------
(* Europa.use *)

\* Europa.use(service)
Use ==
  /\ status = "idle"
  /\ Len(useLog) < MaxUse
  /\ \E service \in ServiceMenu :
       LET r == ServiceManagerSetService(services, service.name, service)
       IN /\ services' = r.services
          /\ useLog' = Append(useLog, [service |-> service, threw |-> r.threw])
  /\ UNCHANGED <<registryVars, convertVars, windowVars>>

-----------------------------------------------------------------------------
(* The specifications *)

InitConvert ==
  /\ europaWindow = Null
  /\ windowsObtained = 0
  /\ windowsClosed = <<>>
  /\ windowLog = <<>>
  /\ html = "none"
  /\ dom = EmptyTree
  /\ status = "idle"
  /\ conversion = NoConversion
  /\ stack = <<>>
  /\ contexts = <<>>
  /\ log = <<>>
  /\ failure = NoFailure
  /\ result = NoResult

\* A new Europa, the plugins of ConversionRegistry registered.
Init ==
  /\ plugins = ConversionRegistry.plugins
  /\ pluginKeys = ConversionRegistry.keys
  /\ registered = <<"StrongPlugin", "PreformattedPlugin", "FramePlugin", "PluginA">>
  /\ services = ConversionServices
  /\ useLog = <<>>
  /\ InitConvert

\* One convert call.
Next ==
  \/ Convert
  \/ BeforeAll
  \/ ConvertElementEnter
  \/ ConvertElementBefore
  \/ ConvertElementConvert
  \/ ConvertElementConverted
  \/ ConvertElementChildren
  \/ ConvertElementAfter
  \/ AfterAll
  \/ ConvertReturn

Spec == Init /\ [][Next]_vars

\* A new PluginManager: no plugin is registered.
InitRegistry ==
  /\ plugins = EmptyRegistry.plugins
  /\ pluginKeys = EmptyRegistry.keys
  /\ registered = <<>>
  /\ services = ConversionServices
  /\ useLog = <<>>
  /\ InitConvert

NextRegistry == Register \/ RegisterPreset

SpecRegistry == InitRegistry /\ [][NextRegistry]_vars

\* A new ServiceManager: no service is configured.
InitServices ==
  /\ plugins = ConversionRegistry.plugins
  /\ pluginKeys = ConversionRegistry.keys
  /\ registered = <<"StrongPlugin", "PreformattedPlugin", "FramePlugin", "PluginA">>
  /\ services = EmptyServices
  /\ useLog = <<>>
  /\ InitConvert

\* Any use calls.
NextServices == Use

SpecServices == InitServices /\ [][NextServices]_vars

\* One convert call, and window accesses and destroy calls before and after it.
NextWindow == Window \/ Destroy \/ Next

SpecWindow == Init /\ [][NextWindow]_vars

\* The steps of a convert call once it is made: convert runs on one thread, no
\* step of it waits for anything, and the hooks it calls return (or throw).
ConvertSteps ==
  \/ BeforeAll
  \/ ConvertElementEnter
  \/ ConvertElementBefore
  \/ ConvertElementConvert
  \/ ConvertElementConverted
  \/ ConvertElementChildren
  \/ ConvertElementAfter
  \/ AfterAll
  \/ ConvertReturn

\* Where a convert call stands: every step of the call changes it.
callVars == <<status, stack>>

\* One convert call that is run on: a step of the call that can be taken is
\* taken.
SpecTermination == Init /\ [][Next]_vars /\ WF_callVars(ConvertSteps)

-----------------------------------------------------------------------------
(* Reading the history *)

\* The log entries of kind ev about node n.
Entries(ev, n) == { i \in DOMAIN log : log[i].ev = ev /\ log[i].node = n }

\* The elements for which a plugin was found, and those for which none was.
Matched == { log[i].node : i \in { j \in DOMAIN log :
                 log[j].ev = "visit" /\ log[j].plugin # NoPlugin } }

\* Whether a convertElement call for node n is active.
Active(n) == \E i \in DOMAIN stack : stack[i].node = n

\* The nodes the engine's loop over childNodes handed to convertElement while
\* it visited element n, in call order.
RECURSIVE EngineCalls(_, _)
EngineCalls(n, l) ==
  IF l = <<>> THEN <<>>
  ELSE (IF Head(l).ev = "convertElement" /\ Head(l).by = "engine" /\ Head(l).from = n
        THEN <<Head(l).node>> ELSE <<>>) \o EngineCalls(n, Tail(l))

\* Whether a node of the claim's kind is not shown: by its own style.
NotShown(d) == IsElement(d) /\ (d.display = "none" \/ d.visibility = "hidden")

-----------------------------------------------------------------------------
(* Claims *)

\* C1 - Plugin pairing: for every element for which a plugin was found and
\* whose visit has returned, that plugin's before hook was called exactly once
\* and its after hook exactly once, before first, whatever the convert hook
\* returned; while the visit is active neither hook was called more than once
\* and after was not called before before.
C1_PluginPairing ==
  \A n \in Matched :
    LET before == Entries("before", n)
        after == Entries("after", n)
    IN /\ Cardinality(before) <= 1 /\ Cardinality(after) <= 1
       /\ \A a \in after : \E b \in before : b < a /\ log[b].plugin = log[a].plugin
       /\ ~Active(n) => Cardinality(before) = 1 /\ Cardinality(after) = 1

\* C1 witness: a conversion is done in which the convert hook of a matched
\* element returned false and the element got its before and its after call.
C1_Witness ==
  /\ status = "done"
  /\ \E i \in DOMAIN log :
       /\ log[i].ev = "converted" /\ log[i].ret = "false"
       /\ \E b \in Entries("before", log[i].node) :
            \E a \in Entries("after", log[i].node) : b < i /\ i < a

\* C2 - Descend decision (as claimed): for a matched element whose visit has
\* returned, the engine's loop visited the element's child nodes, each once and
\* in document order, when the convert hook returned true or returned no value,
\* and visited none when the hook returned false.
C2_DescendDefaultsToTrue ==
  \A i \in DOMAIN log :
    (log[i].ev = "converted" /\ ~Active(log[i].node)) =>
      EngineCalls(log[i].node, log) =
        IF log[i].ret \in {"true", "undefined"}
        THEN ChildNodes(dom, log[i].node) ELSE <<>>

\* C3 - Visibility exclusion: every output call is made while visiting a node
\* that is shown and all of whose ancestors (through child nodes and through
\* frame documents) are shown: nothing is written for a node inside an element
\* with display none or visibility hidden.
C3_VisibilityExclusion ==
  \A i \in DOMAIN log :
    log[i].ev = "output" =>
      \A a \in AncestorsOrSelf(dom, log[i].node) : ~NotShown(dom.node[a])

\* C3 witness: a conversion is done that wrote something and was handed an
\* element that is not shown and has a text node under it.
C3_Witness ==
  /\ status = "done"
  /\ \E i \in DOMAIN log : log[i].ev = "output"
  /\ \E n \in 1..dom.size :
       /\ NotShown(dom.node[n])
       /\ Entries("convertElement", n) # {}
       /\ \E t \in 1..dom.size :
            IsText(dom.node[t]) /\ n \in Ancestors(dom, t)

\* C4 - Falsy input: a convert call with a falsy html has returned the empty
\* string at once: no Conversion was created, no hook and no convertElement
\* call was made, and no window was obtained.
C4_FalsyInput ==
  html \in FalsyKinds =>
    /\ status = "done" /\ result = <<>>
    /\ conversion = NoConversion
    /\ log = <<>> /\ stack = <<>>
    /\ europaWindow = Null /\ windowsObtained = 0

\* C4 witness: convert has returned for the empty string.
C4_Witness == html = "empty string" /\ status = "done" /\ result = <<>>

FailureAncestors ==
  IF failure.node = Null THEN {} ELSE Ancestors(dom, failure.node)

\* The number of before and of after calls for node n.
Calls(n) ==
  <<Cardinality(Entries("before", n)), Cardinality(Entries("after", n))>>

\* C6 - Pairing and errors (as claimed): when a convert call has ended with an
\* error raised in the visit of a descendant of E, and the before hook was
\* called for E, the after hook was called for E too.
C6_AfterDespiteError ==
  status = "error" =>
    \A n \in FailureAncestors :
      Entries("before", n) # {} => Entries("after", n) # {}

\* C6 (amended) - when a convert call has ended with an error, the elements
\* whose visit had returned got their before and their after call, once each;
\* every matched ancestor of the node whose hook threw got its before call and
\* no after call (the error left its visit); the node whose hook threw got no
\* after call unless it was the after hook that threw.
C6_ErrorLeavesVisit ==
  status = "error" =>
    \A n \in Matched :
      Calls(n) = IF n \in FailureAncestors THEN <<1, 0>>
                 ELSE IF n = failure.node /\ failure.hook # "after" THEN <<1, 0>>
                 ELSE <<1, 1>>

\* C6 witness: a hook threw in the visit of a node that has a matched ancestor
\* whose before hook had been called.
C6_Witness ==
  /\ status = "error"
  /\ \E n \in FailureAncestors : Entries("before", n) # {}

\* C7 - Error propagation: when a hook has thrown, convert has returned no
\* result, the call that threw is the last entry of the log (no hook and no
\* output call followed it), and nothing happens any more: the call is not
\* made again and the conversion does not go on.
C7_ErrorPropagation ==
  /\ [](failure # NoFailure =>
          /\ status = "error"
          /\ result = NoResult
          /\ log # <<>>
          /\ Last(log).ev = failure.hook
          /\ Last(log).plugin = failure.plugin
          /\ Last(log).node = failure.node
          /\ failure.hook \in {"beforeAll", "before", "convert", "after", "afterAll"})
  /\ [][failure # NoFailure => UNCHANGED vars]_vars

\* C7 witness: the convert hook of an element threw after another hook call
\* had returned.
C7_Witness ==
  /\ status = "error" /\ failure.hook = "convert"
  /\ Entries("before", failure.node) # {}
  /\ result = NoResult

\* Whether no element of the tree has a registered plugin.
NoPluginTree ==
  \A n \in 1..dom.size :
    IsElement(dom.node[n]) => plugins[dom.node[n].tagName] = NoPlugin

\* The nodes of kind among from..dom.size all of whose ancestors are shown (and
\* which are shown themselves), in document order.
RECURSIVE ShownFrom(_, _)
ShownFrom(isKind(_), from) ==
  IF from > dom.size THEN <<>>
  ELSE (IF isKind(dom.node[from])
           /\ \A a \in AncestorsOrSelf(dom, from) : ~NotShown(dom.node[a])
        THEN <<from>> ELSE <<>>) \o ShownFrom(isKind, from + 1)

ShownTexts == ShownFrom(IsText, 1)
ShownElements == ShownFrom(IsElement, 1)

\* The output entries of the log, in order.
RECURSIVE Outputs(_)
Outputs(l) ==
  IF l = <<>> THEN <<>>
  ELSE (IF Head(l).ev = "output" THEN <<Head(l)>> ELSE <<>>) \o Outputs(Tail(l))

\* What C8 says of the traversal of a tree without plugins: only beforeAll and
\* afterAll hooks ran, the child nodes of every shown element were visited, and
\* the shown text nodes were written once each, in document order, by a
\* collapsible write of their value.
NoPluginTraversal ==
  /\ \A i \in DOMAIN log :
       log[i].ev \notin {"before", "convert", "converted", "after"}
  /\ \A k \in DOMAIN ShownElements :
       EngineCalls(ShownElements[k], log) = ChildNodes(dom, ShownElements[k])
  /\ Len(Outputs(log)) = Len(ShownTexts)
  /\ \A k \in DOMAIN ShownTexts :
       LET o == Outputs(log)[k]
       IN /\ o.node = ShownTexts[k]
          /\ o.string = dom.node[ShownTexts[k]].nodeValue
          /\ o.clean

BackslashedBackticks(s) ==
  Concat([i \in DOMAIN s |-> IF s[i] = Backtick THEN <<"\\", s[i]>> ELSE <<s[i]>>])

\* C9 - Text-node mode routing: the output call for a text node is a raw write
\* of the node's value when inPreformattedBlock is set (whether or not
\* inCodeBlock is), else a raw write of the value with every backtick
\* backslashed when inCodeBlock is set, else a collapsible write of the value;
\* and a text node handed to convertElement gets exactly one output call.
C9_TextNodeRouting ==
  /\ \A i \in DOMAIN log :
       (log[i].ev = "output" /\ IsText(dom.node[log[i].node])) =>
         LET value == dom.node[log[i].node].nodeValue
         IN IF log[i].pre THEN log[i].string = value /\ ~log[i].clean
            ELSE IF log[i].code
            THEN log[i].string = BackslashedBackticks(value) /\ ~log[i].clean
            ELSE log[i].string = value /\ log[i].clean
  /\ \A t \in 1..dom.size :
       IsText(dom.node[t]) =>
         Cardinality(Entries("output", t)) =
           Cardinality(Entries("convertElement", t))
             - (IF Active(t) THEN 1 ELSE 0)

\* C9 witness: a conversion is done in which a text node with a backtick was
\* written while both mode flags were set.
C9_Witness ==
  /\ status = "done"
  /\ \E i \in DOMAIN log :
       /\ log[i].ev = "output" /\ IsText(dom.node[log[i].node])
       /\ log[i].pre /\ log[i].code
       /\ Backtick \in { log[i].string[k] : k \in DOMAIN log[i].string }

\* The plugin registered last among those that declare tag (NoPlugin: none).
LastDeclaring(tag) ==
  LET declaring == { i \in DOMAIN registered :
                       \E k \in DOMAIN GetTagNames(registered[i]) :
                         GetTagNames(registered[i])[k] = tag }
  IN IF declaring = {} THEN NoPlugin
     ELSE registered[CHOOSE i \in declaring : \A j \in declaring : j <= i]

\* C10 - Registry conflict override: after any register and registerPreset
\* calls every tag name is mapped to the plugin registered last among those
\* that declare it, and to none when no registered plugin declares it; so B
\* registered for x after A for x and y leaves A for y and B for x.
C10_ConflictOverride ==
  /\ \A tag \in TagNames : plugins[tag] = LastDeclaring(tag)
  /\ \A i \in DOMAIN pluginKeys : plugins[pluginKeys[i]] # NoPlugin
  /\ \A tag \in TagNames :
       plugins[tag] # NoPlugin =>
         Cardinality({ i \in DOMAIN pluginKeys : pluginKeys[i] = tag }) = 1

\* C10 witness: B was registered after A.
C10_Witness ==
  /\ registered = <<"PluginA", "PluginB">>
  /\ plugins["x"] = "PluginB" /\ plugins["y"] = "PluginA"

\* C11 - Europa.use: a use call throws exactly when a service was configured
\* under the name of its service by an earlier use call (so the first use call
\* for a name succeeds and every later one for that name fails, at the call);
\* the service kept under a name is the one of the first call for it.
C11_UseTwiceThrows ==
  /\ \A i \in DOMAIN useLog :
       useLog[i].threw <=>
         \E j \in 1..(i - 1) : useLog[j].service.name = useLog[i].service.name
  /\ \A n \in ServiceNames :
       LET calls == { i \in DOMAIN useLog : useLog[i].service.name = n }
       IN services[n] = IF calls = {} THEN NoService
                        ELSE useLog[CHOOSE i \in calls : \A j \in calls : i <= j].service

\* C11 witness: a use call succeeded and a later one for the same name, with
\* another service, threw.
C11_Witness ==
  \E i, j \in DOMAIN useLog :
    /\ i < j /\ useLog[i].service.name = useLog[j].service.name
    /\ useLog[i].service # useLog[j].service
    /\ ~useLog[i].threw /\ useLog[j].threw

\* The elements handled by plugin p whose visit has returned.
Returned(p) ==
  { log[i].node : i \in { j \in DOMAIN log :
      log[j].ev = "visit" /\ log[j].plugin = p /\ ~Active(log[j].node) } }

\* The only entry of kind ev about node n (of a node that has one).
Entry(ev, n) == CHOOSE i \in Entries(ev, n) : TRUE

\* Whether entry i of the log is the raw write of two asterisks for node n.
IsBoldMark(i, n) ==
  /\ i \in DOMAIN log /\ log[i].ev = "output" /\ log[i].node = n
  /\ log[i].string = <<"*", "*">> /\ ~log[i].clean

\* C12 - Bold scenario: for every b or strong element whose visit has
\* returned, the convert hook of the strong plugin made a raw write of two
\* asterisks, then the engine visited every child node in turn, then the after
\* hook made a raw write of two asterisks; every output for a node under the
\* element lies between the two.  The conversion of <p>Hello <b>World</b></p>
\* returns Hello **World**.
C12_BoldScenario ==
  /\ \A n \in Returned("StrongPlugin") :
       /\ Entries("convert", n) # {} /\ Entries("after", n) # {}
       /\ IsBoldMark(Entry("convert", n) + 1, n)
       /\ IsBoldMark(Entry("after", n) + 1, n)
       /\ EngineCalls(n, log) = ChildNodes(dom, n)
       /\ \A i \in DOMAIN log :
            (log[i].ev \in {"output", "convertElement"}
               /\ log[i].node # n /\ n \in AncestorsOrSelf(dom, log[i].node))
              => Entry("convert", n) + 1 < i /\ i < Entry("after", n)
  /\ (status = "done" /\ dom = BoldScenario) =>
       result = <<"H", "e", "l", "l", "o", " ", "*", "*",
                  "W", "o", "r", "l", "d", "*", "*">>

\* C12 witness: the conversion of <p>Hello <b>World</b></p> is done, and the
\* text under its b element was written.
C12_Witness ==
  /\ status = "done" /\ dom = BoldScenario
  /\ 4 \in Returned("StrongPlugin")
  /\ \E i \in Entries("output", 5) : log[i].string = dom.node[5].nodeValue

\* Whether sequence sub occurs in sequence seq.
Contains(seq, sub) ==
  \E i \in 1..(Len(seq) - Len(sub) + 1) : SubSeq(seq, i, i + Len(sub) - 1) = sub

\* C13 - Preformatted scenario (as claimed): for every pre element whose
\* visit has returned, every text node among its child nodes was written by a
\* raw write of its value, made while inPreformattedBlock was true; and the
\* conversion of <pre>  line one\n  line two</pre> returns a text that holds
\* both lines, the second with its two leading spaces.
C13_PreformattedVerbatim ==
  /\ \A n \in Returned("PreformattedPlugin") :
       \A k \in DOMAIN ChildNodes(dom, n) :
         LET t == ChildNodes(dom, n)[k]
         IN IsText(dom.node[t]) =>
              \E i \in Entries("output", t) :
                /\ log[i].pre /\ ~log[i].clean
                /\ log[i].string = dom.node[t].nodeValue
  /\ (status = "done" /\ dom = PreformattedScenario) =>
       /\ Contains(result, <<"l", "i", "n", "e", " ", "o", "n", "e", "\n">>)
       /\ Contains(result, <<" ", " ", "l", "i", "n", "e", " ", "t", "w", "o">>)

\* The windows the window service has handed out, and those it was told to
\* close.
Obtained == { GetWindow(k) : k \in 0..(windowsObtained - 1) }
Closed == { windowsClosed[i] : i \in DOMAIN windowsClosed }

\* C14 - Window lifecycle: at any time every closed window is one that was
\* obtained, no window was closed twice, and the obtained windows that are not
\* closed are the held one, if any (so at most one).  In every step: a window
\* is obtained only when none is held, and is held then; a destroy call closes
\* the held window, once, and holds none, and closes nothing when none is
\* held; nothing but destroy closes a window; a window access of the caller
\* keeps the held window and obtains one when none is held (so the access
\* after a destroy obtains a new one).
C14_WindowLifecycle ==
  /\ [](/\ Closed \subseteq Obtained
        /\ Cardinality(Closed) = Len(windowsClosed)
        /\ Obtained \ Closed = IF europaWindow = Null THEN {} ELSE {europaWindow})
  /\ [][/\ windowsObtained' # windowsObtained =>
             /\ europaWindow = Null
             /\ windowsObtained' = windowsObtained + 1
             /\ europaWindow' = GetWindow(windowsObtained)
             /\ europaWindow' \notin Obtained
        /\ windowLog' = windowLog => windowsClosed' = windowsClosed
        /\ (windowLog' # windowLog /\ Last(windowLog') = "destroy") =>
             /\ europaWindow' = Null
             /\ windowsObtained' = windowsObtained
             /\ windowsClosed' = IF europaWindow = Null THEN windowsClosed
                                 ELSE Append(windowsClosed, europaWindow)
        /\ (windowLog' # windowLog /\ Last(windowLog') = "window") =>
             /\ europaWindow' # Null
             /\ europaWindow # Null => europaWindow' = europaWindow
             /\ windowsClosed' = windowsClosed]_vars

\* C14 witness: the caller read the window and called destroy twice, which
\* closed one window; the convert call that followed obtained a second window.
C14_Witness ==
  /\ windowLog = <<"window", "destroy", "destroy">>
  /\ status = "done" /\ html \notin FalsyKinds
  /\ windowsClosed = <<GetWindow(0)>>
  /\ windowsObtained = 2 /\ europaWindow = GetWindow(1)

\* The entries of the log that are calls of a hook of convertElement.
HookCalls == { i \in DOMAIN log : log[i].ev \in {"before", "convert", "after"} }

\* C15 - currentElement (as claimed): at every call of the before, convert or
\* after hook for an element, conversion.element is that element (and
\* conversion.tagName its tag name).
C15_CurrentElementTracks ==
  \A i \in HookCalls :
    /\ log[i].conv.element = log[i].node
    /\ TagName(dom, log[i].conv) = dom.node[log[i].node].tagName

\* C16 - Frame window restore: for every frame or iframe element handled by
\* the frame plugin whose visit has returned, conversion.window at the return
\* is the window the before hook found; between the two it was the element's
\* contentWindow from the convert hook on, when the element has one.
C16_FrameWindowRestored ==
  \A n \in Returned("FramePlugin") :
    /\ Entries("before", n) # {} /\ Entries("returned", n) # {}
    /\ log[Entry("returned", n)].conv.window = log[Entry("before", n)].conv.window
    /\ log[Entry("after", n)].conv.window =
         IF ContentWindow(dom, n) # Null THEN ContentWindow(dom, n)
         ELSE log[Entry("before", n)].conv.window

\* C16 witness: the visit of a frame with a contentWindow has returned that
\* lies in the document of another frame: the window it restored is that
\* frame's contentWindow.
C16_Witness ==
  \E n \in Returned("FramePlugin") :
    /\ ContentWindow(dom, n) # Null
    /\ \E m \in Ancestors(dom, n) :
         /\ ContentWindow(dom, m) # Null
         /\ log[Entry("before", n)].conv.window = ContentWindow(dom, m)
         /\ log[Entry("returned", n)].conv.window = ContentWindow(dom, m)
    /\ log[Entry("after", n)].conv.window = ContentWindow(dom, n)

Visits == { i \in DOMAIN log : log[i].ev = "visit" }

\* What the context of an element of plugin p holds once p's before hook,
\* called with conversion c, has returned.
StoredByBefore(p, c) ==
  { o.ctx : o \in { x \in PluginBefore(p, c, EmptyContext) : ~x.threw } }

\* C18 - Per-element context: the hooks of one element are all handed the
\* context object created at that element's visit; no two visits share a
\* context object; the object holds nothing when before is called; and what
\* the convert and after hooks find in it is what the before hook of the same
\* element stored, nothing of any other element.
C18_PerElementContext ==
  /\ \A v, w \in Visits : v # w => log[v].context # log[w].context
  /\ \A v \in Visits : log[v].context \in DOMAIN contexts
  /\ \A i \in HookCalls :
       /\ \E v \in Visits :
            log[v].node = log[i].node /\ log[v].context = log[i].context
       /\ log[i].ev = "before" => log[i].ctx = EmptyContext
       /\ log[i].ev \in {"convert", "after"} =>
            /\ Entries("before", log[i].node) # {}
            /\ log[i].ctx \in
                 StoredByBefore(log[i].plugin,
                                log[Entry("before", log[i].node)].conv)

\* C18 witness: two elements have been visited whose before hooks stored
\* different values, and each after hook found the value of its own element.
C18_Witness ==
  \E i, j \in HookCalls :
    /\ log[i].ev = "after" /\ log[j].ev = "after" /\ log[i].node # log[j].node
    /\ log[i].ctx # EmptyContext /\ log[j].ctx # EmptyContext
    /\ log[i].ctx # log[j].ctx

\* The entries of the log that are hook calls of convertElement or output
\* calls.
Traversal == HookCalls \cup { i \in DOMAIN log : log[i].ev = "output" }

\* C19 - Hook ordering: every beforeAll call precedes, and every afterAll call
\* follows, every before, convert and after call and every output call.  For
\* an element with a plugin the calls are before, convert, after, in this
\* order, and every hook call and output call for a node under the element
\* lies after the element's convert call and before its after call.
C19_HookOrdering ==
  /\ \A i \in DOMAIN log : \A t \in Traversal :
       /\ log[i].ev = "beforeAll" => i < t
       /\ log[i].ev = "afterAll" => t < i
  /\ \A n \in Matched :
       /\ \A c \in Entries("convert", n) : \E b \in Entries("before", n) : b < c
       /\ \A a \in Entries("after", n) : \E c \in Entries("convert", n) : c < a
       /\ \A t \in Traversal :
            n \in Ancestors(dom, log[t].node) =>
              /\ \E c \in Entries("convert", n) : c < t
              /\ \A a \in Entries("after", n) : t < a

\* C19 witness: a conversion is done in which an element with a plugin had a
\* descendant with a plugin, both got their before and after calls, and
\* beforeAll and afterAll calls were made.
C19_Witness ==
  /\ status = "done"
  /\ \E i, j \in DOMAIN log : log[i].ev = "beforeAll" /\ log[j].ev = "afterAll"
  /\ \E n, m \in Matched :
       /\ n \in Ancestors(dom, m)
       /\ Entries("after", n) # {} /\ Entries("after", m) # {}
       /\ Entry("convert", n) < Entry("before", m)
       /\ Entry("after", m) < Entry("after", n)

\* The convertElement calls of the log for an element that is not shown.
InvisibleCalls ==
  { i \in DOMAIN log : log[i].ev = "convertElement" /\ log[i].node # Null
                          /\ NotShown(dom.node[log[i].node]) }

\* C20 - Invisible element: a convertElement call for an element with display
\* none or visibility hidden returns at once and leaves the conversion as it
\* found it (buffer, mode flags, left, element and all other fields); no hook
\* call, output call or convertElement call is made for the element's
\* descendants or, the one call apart, for the element; the element gets no
\* visit entry and no context object is created for it.
C20_InvisibleLeavesState ==
  /\ \A i \in InvisibleCalls :
       LET n == log[i].node
       IN /\ i < Len(log) =>
               /\ log[i + 1].ev = "returned" /\ log[i + 1].node = n
               /\ log[i + 1].conv = log[i].conv
          /\ \A j \in DOMAIN log :
               (j # i /\ log[j].ev # "returned"
                  /\ n \in AncestorsOrSelf(dom, log[j].node)) => FALSE
          /\ \A j \in DOMAIN log :
               (log[j].ev = "returned" /\ n \in AncestorsOrSelf(dom, log[j].node))
                 => j = i + 1
  /\ Len(contexts) = Cardinality(Visits)

\* C20 witness: after something was written, convertElement was called for an
\* element that is not shown and has a node under it, and returned with the
\* conversion, its buffer not empty, as it was.
C20_Witness ==
  \E i \in InvisibleCalls :
    /\ i < Len(log)
    /\ log[i].conv.buffer # <<>> /\ log[i + 1].conv = log[i].conv
    /\ \E m \in 1..dom.size : log[i].node \in Ancestors(dom, m)
    /\ status = "done"

\* The visit entries of the elements handled by the frame plugin.
FrameVisits == { i \in DOMAIN log : log[i].ev = "visit" /\ log[i].plugin = "FramePlugin" }

\* The convertElement calls made while element n was the calling element.
CallsFrom(n) == { j \in DOMAIN log : log[j].ev = "convertElement" /\ log[j].from = n }

\* C21 - Frame plugin owns its subtree: for every visible frame or iframe
\* element handled by the frame plugin, the convert hook returns false and the
\* engine makes no convertElement call for the element's child nodes; no
\* output call is made for the element itself; when the element has a
\* contentWindow, once the convert hook has run there is exactly one
\* convertElement call from the element, made by the plugin for the body of
\* the window's document, and conversion.window is the contentWindow at that
\* call, at the engine's calls for the body's child nodes and at the body's
\* return; when it has no contentWindow no call is made from the element and
\* its visit returns with the conversion as the call found it, the current
\* element apart.
C21_FrameOwnsSubtree ==
  \A i \in FrameVisits :
    LET n == log[i].node
        window == ContentWindow(dom, n)
        body == Body(dom, n)
    IN /\ \A j \in Entries("converted", n) : log[j].ret = "false"
       /\ \A j \in CallsFrom(n) :
            /\ log[j].by = "plugin" /\ window # Null
            /\ log[j].node = body
            /\ log[j].conv.window = window
       /\ Entries("output", n) = {}
       /\ window # Null =>
            /\ Cardinality(CallsFrom(n)) <= 1
            /\ Entries("converted", n) # {} => Cardinality(CallsFrom(n)) = 1
            /\ body # Null =>
                 /\ Cardinality(Entries("convertElement", body)) <= 1
                 /\ Cardinality(Entries("visit", body)) <= 1
                 /\ \A j \in Entries("convertElement", body) : log[j].from = n
                 /\ \A j \in CallsFrom(body) :
                      log[j].by = "engine" => log[j].conv.window = window
                 /\ \A j \in Entries("returned", body) : log[j].conv.window = window
       /\ window = Null =>
            /\ CallsFrom(n) = {}
            /\ \A m \in 1..dom.size :
                 n \in Ancestors(dom, m) =>
                   \A j \in DOMAIN log : log[j].node # m
            /\ \A j \in Entries("returned", n) :
                 log[j].conv = [log[i - 1].conv EXCEPT !.element = n]

\* C21 witness: a convert call has returned for a tree in which a frame that
\* has both a child node and a contentWindow was visited: its body, a visible
\* element, was visited once, on the plugin's call, and the child node never.
C21_Witness ==
  /\ status = "done"
  /\ \E i \in FrameVisits :
       LET n == log[i].node
           body == Body(dom, n)
       IN /\ ContentWindow(dom, n) # Null /\ body # Null
          /\ ChildNodes(dom, n) # <<>>
          /\ Cardinality(Entries("visit", body)) = 1
          /\ \E j \in Entries("convertElement", body) :
               log[j].by = "plugin" /\ log[j].conv.window = ContentWindow(dom, n)
          /\ \A m \in 1..Len(ChildNodes(dom, n)) :
               Entries("convertElement", ChildNodes(dom, n)[m]) = {}

\* The convertElement calls of the log that were handed a node.
NodeCalls == { i \in DOMAIN log : log[i].ev = "convertElement" /\ log[i].node # Null }

\* Whether convert(html) has ended: by its return or by an error.
Completed == status \in {"done", "error"}

\* C22 - Termination: a convert call that was made eventually ends, by
\* returning or by an error that leaves it; when it has returned for an input
\* with a tree, the result is the trimmed buffer, no convertElement call is
\* active and the afterAll hook was called for every key of the plugin map after the last
\* convertElement call returned; when it ended by an error, a hook threw it
\* and no result exists; convertElement is called at most once for a node, so
\* the calls number at most the nodes of the tree (the bodies of nested frame
\* documents among them).
C22_Termination ==
  /\ (status # "idle") ~> Completed
  /\ [](IF status = "done"
        THEN /\ failure = NoFailure
             /\ IF IsFalsy(html) THEN result = <<>>
                ELSE /\ result = Trim(conversion.buffer)
                     /\ stack = <<>>
                     /\ Len(log) >= Len(pluginKeys)
                     /\ \A k \in 1..Len(pluginKeys) :
                          LET e == log[Len(log) - Len(pluginKeys) + k]
                          IN e.ev = "afterAll" /\ e.plugin = plugins[pluginKeys[k]]
                     /\ \A i \in NodeCalls : Entries("returned", log[i].node) # {}
        ELSE IF status = "error"
        THEN failure # NoFailure /\ result = NoResult
        ELSE TRUE)
  /\ [](/\ \A n \in 1..dom.size : Cardinality(Entries("convertElement", n)) <= 1
        /\ \A n \in 1..dom.size : Cardinality(Entries("visit", n)) <= 1
        /\ Cardinality(NodeCalls) <= dom.size)

\* C22 witness: convert has returned for a tree of MaxNodes nodes with a frame
\* document in it, after a convertElement call for every node of the tree.
C22_Witness ==
  /\ status = "done" /\ dom.size = MaxNodes
  /\ \E n \in 1..dom.size : dom.link[n] = "body"
  /\ Cardinality(NodeCalls) = dom.size
  /\ Last(log).ev = "afterAll"

=============================================================================
